---- MODULE Spec2Model ----
(***************************************************************************)
(* The execution engine of atf: TestSet.Execute drives TestCase.Execute,   *)
(* which drives TestStep.Execute, which drives Action.Execute, which calls *)
(* the process runner Execute(script, args).  Results flow back upwards    *)
(* through Action.Result, TestStep.Status and TestCase.Status.             *)
(***************************************************************************)
EXTENDS Integers, Sequences, FiniteSets, TLC

\* Largest number of steps of the case under TestCase.Execute (SpecCase).
MaxSteps == 2
\* Largest number of cases of the set under TestSet.Execute (Spec).
MaxCases == 2
\* Largest number of steps of each case of the set under TestSet.Execute.
MaxSetSteps == 2
\* Largest number of calls of Init or Initialize on one object.
MaxInits == 2
\* Largest number of cases of a loaded set, and of steps of each of its cases
\* (SpecLoad).
MaxLoadCases == 1
MaxLoadSteps == 1
\* Longest name of a test plan, in bytes (SpecPlan).
MaxNameLen == 2
\* Largest number of cases, and of steps of a case, of a set whose execution
\* is followed to its end (SpecLive).
MaxLiveCases == 1
MaxLiveSteps == 2
\* Largest number of messages sent to the FileHandler, of messages logged
\* through the Log and of calls of Log.AddHandler (SpecLog).
MaxSends == 2
MaxLogs == 1
MaxAdds == 1

VARIABLES
    tset,   \* the TestSet tree: Setup, Cleanup, Cases (each with its Steps)
    pc,     \* position of the running Execute call
    ci,     \* index of the case the range loop of TestSet.Execute is at
    si,     \* index of the step the range loop of TestCase.Execute is at
    entry,  \* the method the caller has invoked: "set", "case", "step", "action", "load", "plan", "log"
    trace,  \* calls made so far to the display callback and the process runner
    calls,  \* the calls of the process runner: what it was given and what it returned
    inits,  \* number of calls of Init or Initialize made on the object under test
    tplan,  \* the TestPlan TestPlan.ToTestSet is called on
    lg,     \* the Log: its Handlers, and what its callers were returned and have logged
    fh      \* the FileHandler: its channels, its file, its goroutine and its caller

vars == <<tset, pc, ci, si, entry, trace, calls, inits, tplan, lg, fh>>

\* A nil *Action pointer.
NIL == [nil |-> TRUE]

--------------------------------------------------------------------------
\* Action

CreateAction(script, args) ==
    [Script |-> script, Args |-> args, Result |-> "NotTested", Output |-> "",
     Description |-> "", Executable |-> TRUE, Manual |-> FALSE]

CreateManualAction(descr) ==
    [Script |-> "", Args |-> "", Result |-> "NotTested", Output |-> "",
     Description |-> descr, Executable |-> FALSE, Manual |-> TRUE]

CreateEmptyAction ==
    [Script |-> "No action", Args |-> "", Result |-> "NotTested", Output |-> "",
     Description |-> "", Executable |-> FALSE, Manual |-> FALSE]

\* Action.Init with the manual flag decided by the description alone: an
\* action with a script and a description would get both flags.
ActionInitManualOnDescription(a) ==
    [a EXCEPT !.Result = "NotTested",
              !.Executable = (a.Script # ""),
              !.Manual = (a.Description # "")]

\* Action.Init.
ActionInit(a) ==
    [a EXCEPT !.Result = "NotTested",
              !.Executable = (a.Script # ""),
              !.Manual = (a.Script = "" /\ a.Description # "")]

\* path.Ext over the script names the model uses.
Ext(scr) ==
    CASE scr = "t.xyz" -> ".xyz"
      [] scr = "t.exp" -> ".exp"
      [] scr = "t.py" -> ".py"
      [] OTHER -> ""

determineType(scr) ==
    CASE Ext(scr) \in {"", ".exe", ".com", ".bat"} -> "NativeExecutable"
      [] Ext(scr) = ".py" -> "PythonScript"
      [] Ext(scr) = ".pl" -> "PerlScript"
      [] Ext(scr) = ".tcl" -> "TclScript"
      [] Ext(scr) = ".exp" -> "ExpectScript"
      [] Ext(scr) = ".rb" -> "RubyScript"
      [] Ext(scr) = ".jar" -> "JavaExecutable"
      [] Ext(scr) = ".groovy" -> "GroovyScript"
      [] OTHER -> "UnknownScript"

\* exec.Command(exe, args...).CombinedOutput(): what the operating system can
\* answer.  "cmd", "No action" and the interpreters name programs that start
\* and exit with any code; "missing" names no program, so the launch fails
\* without output.  procs lists the processes that were started.
execute(exe, args) ==
    IF exe = "" THEN {[output |-> "", err |-> TRUE, procs |-> <<>>]}
    ELSE IF exe = "missing" THEN {[output |-> "", err |-> TRUE, procs |-> <<>>]}
    ELSE {[output |-> "stdout", err |-> FALSE, procs |-> <<exe>>],
          [output |-> "stderr", err |-> TRUE, procs |-> <<exe>>]}

\* realargs has len(args) + 2 elements: the script, an element the loop never
\* writes, and the arguments.
executeScript(exe, script, args) == execute(exe, <<script, "">> \o args)

\* runtime.GOOS: fixed by the build, any of the platforms for the model.
GOOS == {"linux", "windows"}

\* The ExpectScript case of Execute: on windows the result of the first
\* executeScript is overwritten by the second, which runs on every platform.
ExecuteExpect(goos, script, args) ==
    IF goos = "windows"
    THEN {[o2 EXCEPT !.procs = o1.procs \o o2.procs] :
            o1 \in executeScript("tclsh", script, args),
            o2 \in executeScript("expect", script, args)}
    ELSE executeScript("expect", script, args)

\* The process runner: the set of results one call can return.
Execute(script, args) ==
    CASE determineType(script) = "NativeExecutable" -> execute(script, args)
      [] determineType(script) = "PythonScript" -> executeScript("python", script, args)
      [] determineType(script) = "ExpectScript" ->
            UNION {ExecuteExpect(goos, script, args) : goos \in GOOS}
      [] OTHER -> {[output |-> "XXX: Invalid output", err |-> TRUE, procs |-> <<>>]}

\* The runner results Action.Execute can meet on action a; a single dummy
\* value when a is nil or not executable, so the runner is not called.
NoRun == [output |-> "", err |-> FALSE, procs |-> <<>>]

\* strings.Split(a.Args, " ") over the argument strings the model uses.
Split(args) ==
    CASE args = "" -> <<"">>
      [] args = "-v x" -> <<"-v", "x">>
      [] OTHER -> <<args>>

Outcomes(a) ==
    IF a # NIL /\ a.Executable THEN Execute(a.Script, Split(a.Args)) ELSE {NoRun}

\* The call `Execute(a.Script, strings.Split(a.Args, " "))` of Action.Execute,
\* made only when a is executable, with o the value it returns.
RunnerCalls(a, o) ==
    IF a.Executable
    THEN <<[script |-> a.Script, args |-> Split(a.Args), output |-> o.output, err |-> o.err,
            procs |-> o.procs]>>
    ELSE <<>>

\* Action.Execute taking the runner's output, not its error, for the verdict.
ActionExecuteFailOnNoOutput(a, o) ==
    IF a.Executable
    THEN [a EXCEPT !.Output = o.output,
                   !.Result = IF o.output = "" THEN "Fail" ELSE "Pass"]
    ELSE [a EXCEPT !.Output = a.Description, !.Result = "NotTested"]

\* Action.Execute without the reset of Result at its head.
ActionExecuteKeepsResult(a, o) ==
    IF a.Executable
    THEN [a EXCEPT !.Output = o.output,
                   !.Result = IF o.err THEN "Fail" ELSE "Pass"]
    ELSE [a EXCEPT !.Output = a.Description]

\* Action.Execute without the copy of Description in its else branch.
ActionExecuteKeepsOutput(a, o) ==
    IF a.Executable
    THEN [a EXCEPT !.Output = o.output,
                   !.Result = IF o.err THEN "Fail" ELSE "Pass"]
    ELSE [a EXCEPT !.Result = "NotTested"]

\* Action.Execute with o the value the runner returns.
ActionExecute(a, o) ==
    IF a.Executable
    THEN [a EXCEPT !.Output = o.output,
                   !.Result = IF o.err THEN "Fail" ELSE "Pass"]
    ELSE [a EXCEPT !.Output = a.Description, !.Result = "NotTested"]

--------------------------------------------------------------------------
\* TestStep

CreateTestStep(expected, status, act) ==
    [Expected |-> expected, Status |-> status, Action |-> act]

\* TestStep.Execute calling Action.Execute on every action it holds.
StepRunsAnyAction(ts) == ts.Action # NIL

\* The guard of the call of Action.Execute in TestStep.Execute.
StepRuns(ts) == ts.Action # NIL /\ ts.Action.Executable

\* TestStep.Execute treating a command that could not be launched as fatal.
StepPanicsOnLaunchFailure(ts) ==
    \/ ts.Action = NIL /\ ts.Expected \in {"Pass", "XFail"}
    \/ ts.Action # NIL /\ ts.Action.Executable /\ ts.Action.Script = "missing"

\* The switch on ts.Expected dereferences ts.Action in its first two cases.
StepPanics(ts) == ts.Action = NIL /\ ts.Expected \in {"Pass", "XFail"}

\* The switch with the Pass case testing for Fail: a Result of NotTested
\* would count as a pass.
StepStatusPassUnlessFail(expected, result) ==
    CASE expected = "Pass" -> IF result = "Fail" THEN "Fail" ELSE "Pass"
      [] expected = "XFail" -> IF result = "Pass" THEN "Fail" ELSE "Pass"
      [] OTHER -> "NotTested"

\* The switch with the XFail case testing for Fail: a Result of NotTested
\* would count as a failure.
StepStatusXFailOnlyOnFail(expected, result) ==
    CASE expected = "Pass" -> IF result = "Pass" THEN "Pass" ELSE "Fail"
      [] expected = "XFail" -> IF result = "Fail" THEN "Pass" ELSE "Fail"
      [] OTHER -> "NotTested"

\* The switch that closes TestStep.Execute.
StepStatus(expected, result) ==
    CASE expected = "Pass" -> IF result = "Pass" THEN "Pass" ELSE "Fail"
      [] expected = "XFail" -> IF result = "Pass" THEN "Fail" ELSE "Pass"
      [] OTHER -> "NotTested"

\* The step TestStep.Execute leaves behind when it returns.
StepExecute(ts, o) ==
    LET act == IF StepRuns(ts) THEN ActionExecute(ts.Action, o) ELSE ts.Action
        res == IF act = NIL THEN "" ELSE act.Result
    IN  [ts EXCEPT !.Action = act, !.Status = StepStatus(ts.Expected, res)]

\* TestStep.Initialize returning where the code panics.
StepInitNeverPanics(ts) == FALSE

\* TestStep.Initialize panics on a step without action.
StepInitPanics(ts) == ts.Action = NIL

\* TestStep.Initialize forcing Expected to Pass for every executable action.
TestStepInitializeForcesPass(ts) ==
    IF ts.Action = NIL THEN ts
    ELSE LET a == ActionInit(ts.Action)
         IN  [ts EXCEPT !.Action = a, !.Status = "NotTested",
                        !.Expected = IF a.Executable THEN "Pass" ELSE ts.Expected]

\* TestStep.Initialize testing the Executable flag before Action.Init has set
\* it.
TestStepInitializeFlagsFirst(ts) ==
    IF ts.Action = NIL THEN ts
    ELSE [ts EXCEPT !.Action = ActionInit(ts.Action), !.Status = "NotTested",
                    !.Expected = IF ts.Action.Executable /\ ts.Expected = ""
                                 THEN "Pass" ELSE ts.Expected]

\* The step TestStep.Initialize leaves behind when it returns; a step without
\* action is left as it is (the call does not return then, see StepInitPanics).
TestStepInitialize(ts) ==
    IF ts.Action = NIL THEN ts
    ELSE LET a == ActionInit(ts.Action)
         IN  [ts EXCEPT !.Action = a, !.Status = "NotTested",
                        !.Expected = IF a.Executable /\ ts.Expected = ""
                                     THEN "Pass" ELSE ts.Expected]

--------------------------------------------------------------------------
\* TestCase

CreateTestCase(setup, cleanup, expected, status) ==
    [Setup |-> setup, Cleanup |-> cleanup, Expected |-> expected,
     Status |-> status, Steps |-> <<>>]

\* TestCase.Append.
CaseAppend(c, steps) == [c EXCEPT !.Steps = c.Steps \o steps]

cleanupAfterCaseSetupFail(tc) ==
    [tc EXCEPT !.Status = "Fail",
               !.Steps = [i \in DOMAIN tc.Steps |->
                            [tc.Steps[i] EXCEPT !.Status = "NotTested"]]]

ResultOf(a) == IF a = NIL THEN "" ELSE a.Result

\* not_tested == len(tc.Steps) at the end of both evaluation functions.
NotTestedCount(steps) == Cardinality({i \in DOMAIN steps : steps[i].Status = "NotTested"})

\* evaluateExpectedPass with one NotTested step enough to make the case
\* NotTested.
evaluateExpectedPassAnyNotTested(tc, st) ==
    IF tc.Setup # NIL /\ tc.Setup.Result = "Fail" THEN "Fail"
    ELSE IF tc.Cleanup # NIL /\ tc.Cleanup.Result = "Fail" THEN "Fail"
    ELSE IF \E i \in DOMAIN tc.Steps : tc.Steps[i].Status = "Fail" THEN "Fail"
    ELSE IF NotTestedCount(tc.Steps) > 0 \/ Len(tc.Steps) = 0 THEN "NotTested"
    ELSE st

\* evaluateExpectedPass without the loop over the steps.
evaluateExpectedPassIgnoresSteps(tc, st) ==
    IF tc.Setup # NIL /\ tc.Setup.Result = "Fail" THEN "Fail"
    ELSE IF tc.Cleanup # NIL /\ tc.Cleanup.Result = "Fail" THEN "Fail"
    ELSE st

\* The case status after evaluateExpectedPass; st is the status on entry.
evaluateExpectedPass(tc, st) ==
    IF tc.Setup # NIL /\ tc.Setup.Result = "Fail" THEN "Fail"
    ELSE IF tc.Cleanup # NIL /\ tc.Cleanup.Result = "Fail" THEN "Fail"
    ELSE IF \E i \in DOMAIN tc.Steps : tc.Steps[i].Status = "Fail" THEN "Fail"
    ELSE IF NotTestedCount(tc.Steps) = Len(tc.Steps) THEN "NotTested"
    ELSE st

\* evaluateExpectedFail with the setup and cleanup tests copied unchanged from
\* evaluateExpectedPass.
evaluateExpectedFailSetupAsPass(tc, st) ==
    IF tc.Setup # NIL /\ tc.Setup.Result = "Fail" THEN "Fail"
    ELSE IF tc.Cleanup # NIL /\ tc.Cleanup.Result = "Fail" THEN "Fail"
    ELSE IF \E i \in DOMAIN tc.Steps : tc.Steps[i].Status = "Pass" THEN "Fail"
    ELSE IF NotTestedCount(tc.Steps) = Len(tc.Steps) THEN "NotTested"
    ELSE st

\* evaluateExpectedFail reading the result of a step's action where the code
\* reads the status of the step.
evaluateExpectedFailOnActionResult(tc, st) ==
    IF tc.Setup # NIL /\ tc.Setup.Result = "Pass" THEN "Fail"
    ELSE IF tc.Cleanup # NIL /\ tc.Cleanup.Result = "Pass" THEN "Fail"
    ELSE IF \E i \in DOMAIN tc.Steps : ResultOf(tc.Steps[i].Action) = "Pass" THEN "Fail"
    ELSE IF NotTestedCount(tc.Steps) = Len(tc.Steps) THEN "NotTested"
    ELSE st

\* The case status after evaluateExpectedFail; st is the status on entry.
evaluateExpectedFail(tc, st) ==
    IF tc.Setup # NIL /\ tc.Setup.Result = "Pass" THEN "Fail"
    ELSE IF tc.Cleanup # NIL /\ tc.Cleanup.Result = "Pass" THEN "Fail"
    ELSE IF \E i \in DOMAIN tc.Steps : tc.Steps[i].Status = "Pass" THEN "Fail"
    ELSE IF NotTestedCount(tc.Steps) = Len(tc.Steps) THEN "NotTested"
    ELSE st

\* evaluate without the default branch: the initial "Pass" stays.
evaluateNoDefault(tc) ==
    [tc EXCEPT !.Status =
        CASE tc.Expected = "Pass" -> evaluateExpectedPass(tc, "Pass")
          [] tc.Expected = "XFail" -> evaluateExpectedFail(tc, "Pass")
          [] OTHER -> "Pass"]

\* TestCase.evaluate.
evaluate(tc) ==
    [tc EXCEPT !.Status =
        CASE tc.Expected = "Pass" -> evaluateExpectedPass(tc, "Pass")
          [] tc.Expected = "XFail" -> evaluateExpectedFail(tc, "Pass")
          [] OTHER -> "NotTested"]

\* A nil setup or cleanup action is replaced by a new Empty action.
DefaultAction(a) == IF a = NIL THEN CreateEmptyAction ELSE a

\* The first step of the list at which TestStep.Initialize panics, 0 if none.
FirstStepPanic(steps) ==
    IF \E i \in DOMAIN steps : StepInitPanics(steps[i])
    THEN CHOOSE i \in DOMAIN steps :
            /\ StepInitPanics(steps[i])
            /\ \A j \in 1..(i - 1) : ~StepInitPanics(steps[j])
    ELSE 0

CaseInitPanics(tc) == FirstStepPanic(tc.Steps) # 0

\* The case TestCase.Initialize leaves behind, when it returns and when a step
\* panics: the steps before that one are initialized, the others are not.
TestCaseInitialize(tc) ==
    LET k == FirstStepPanic(tc.Steps)
    IN  [tc EXCEPT !.Setup = DefaultAction(tc.Setup),
                   !.Cleanup = DefaultAction(tc.Cleanup),
                   !.Steps = [i \in DOMAIN tc.Steps |->
                                IF k = 0 \/ i < k THEN TestStepInitialize(tc.Steps[i])
                                ELSE tc.Steps[i]]]

--------------------------------------------------------------------------
\* TestSet

CreateTestSet(setup, cleanup) ==
    [Setup |-> setup, Cleanup |-> cleanup, Cases |-> <<>>]

\* TestSet.Append.
SetAppend(ts, cases) == [ts EXCEPT !.Cases = ts.Cases \o cases]

CleanupAfterTsetSetupFail(ts) ==
    [ts EXCEPT !.Cases = [c \in DOMAIN ts.Cases |->
        [ts.Cases[c] EXCEPT !.Steps = [i \in DOMAIN ts.Cases[c].Steps |->
            [ts.Cases[c].Steps[i] EXCEPT !.Status = "NotTested"]]]]]

\* The first case of the list at which TestCase.Initialize panics, 0 if none.
FirstCasePanic(cases) ==
    IF \E c \in DOMAIN cases : CaseInitPanics(cases[c])
    THEN CHOOSE c \in DOMAIN cases :
            /\ CaseInitPanics(cases[c])
            /\ \A d \in 1..(c - 1) : ~CaseInitPanics(cases[d])
    ELSE 0

SetInitPanics(ts) == FirstCasePanic(ts.Cases) # 0

\* The set TestSet.Initialize leaves behind, when it returns and when a step
\* panics: the cases up to the one of that step are initialized, the others
\* are not.
TestSetInitialize(ts) ==
    LET k == FirstCasePanic(ts.Cases)
    IN  [ts EXCEPT !.Setup = DefaultAction(ts.Setup),
                   !.Cleanup = DefaultAction(ts.Cleanup),
                   !.Cases = [c \in DOMAIN ts.Cases |->
                                IF k = 0 \/ c <= k THEN TestCaseInitialize(ts.Cases[c])
                                ELSE ts.Cases[c]]]

--------------------------------------------------------------------------
\* TestPlan; a string is the sequence of its bytes here.

\* The built-in copy(dst, src): min(len(dst), len(src)) elements are copied.
copy(dst, src) == [i \in 1..Len(dst) |-> IF i <= Len(src) THEN src[i] ELSE dst[i]]

\* utils.CopyS: a := []byte(s); b := []byte(""); copy(b, a); return string(b).
CopyS(s) ==
    LET a == s
        b == <<>>
    IN  copy(b, a)

CreateTestPlan(name, descr, setup, cleanup) ==
    [Name |-> name, Description |-> descr, Setup |-> setup, Cleanup |-> cleanup,
     Cases |-> <<>>]

\* TestPlan.Append.
PlanAppend(tp, cases) == [tp EXCEPT !.Cases = tp.Cases \o cases]

\* new(TestSet): every field has its zero value.
NewTestSet ==
    [Name |-> <<>>, Description |-> <<>>, Setup |-> NIL, Cleanup |-> NIL, Cases |-> <<>>]

\* The set ToTestSet has built after the two calls of CopyS.
NamedTestSet(tp) ==
    [NewTestSet EXCEPT !.Name = CopyS(tp.Name), !.Description = CopyS(tp.Description)]

\* `*ts.Setup = *tp.Setup` and `*ts.Cleanup = *tp.Cleanup` dereference the
\* pointers on both sides.
ToTestSetPanics(tp) ==
    \/ NamedTestSet(tp).Setup = NIL
    \/ tp.Setup = NIL
    \/ NamedTestSet(tp).Cleanup = NIL
    \/ tp.Cleanup = NIL

\* The set ToTestSet has built when it returns or panics.  The range loop
\* appends the plan's own *TestCase pointers to ts.Cases.
ToTestSet(tp) ==
    IF ToTestSetPanics(tp) THEN NamedTestSet(tp)
    ELSE [NamedTestSet(tp) EXCEPT !.Setup = tp.Setup, !.Cleanup = tp.Cleanup,
                                  !.Cases = tp.Cases]

--------------------------------------------------------------------------
\* utils: Log and FileHandler

\* Severity values (iota order).
Error == 3
Warning == 4
Debug == 7

\* Capacity of the message channel FileHandler.Start makes.
ChanCap == 10

\* NewLog: a Log without handlers.  ret is the slice the last call of
\* AddHandler has returned, adds counts the calls, logged lists for every call
\* of Log.Log the message, the calls of AddHandler made before it and the
\* handlers the message was sent to.
NewLog == [Handlers |-> <<>>, ret |-> <<>>, adds |-> 0, logged |-> <<>>]

\* Log.AddHandler: return append(l.Handlers, h); l.Handlers is not assigned.
AddHandler(l, h) == [l EXCEPT !.ret = Append(l.Handlers, h), !.adds = l.adds + 1]

\* NewFileHandler: the file is open, the channels are nil, no goroutine runs.
\* sent lists the messages Send has put onto msgch, written the messages
\* written to the file.
NewFileHandler(sev) ==
    [sev |-> sev, file |-> "open", msgch |-> NIL, stop |-> NIL, gpc |-> "none",
     sent |-> <<>>, written |-> <<>>]

logmsg(sev, msg) == [sev |-> sev, msg |-> msg]

\* FileHandler.Send: the message goes onto msgch unless msgch is nil.
Send(f, m) ==
    IF f.msgch = NIL THEN f
    ELSE [f EXCEPT !.msgch.buf = Append(f.msgch.buf, m), !.sent = Append(f.sent, m)]

\* Send blocks while the buffer of msgch is full.
SendBlocks(f) == f.msgch # NIL /\ Len(f.msgch.buf) >= ChanCap

\* FileHandler.write: Fprintf to the file when the severity passes the filter;
\* on a closed file Fprintf returns an error, which write drops.
write(f, m) ==
    IF f.sev >= m.sev /\ f.file = "open" THEN [f EXCEPT !.written = Append(f.written, m)]
    ELSE f

\* The handlers of the list that are the FileHandler.
RECURSIVE SendAll(_, _, _)
SendAll(handlers, f, m) ==
    IF handlers = <<>> THEN f
    ELSE SendAll(Tail(handlers), IF Head(handlers) = "fh" THEN Send(f, m) ELSE f, m)

--------------------------------------------------------------------------
\* The calls the engine makes, in order: a call of the display callback is
\* <<"disp", message, case, step>>, a call of the process runner is
\* <<"run", action, case, step>> (case and step are 0 where they do not apply).

Disp(msg, c, s) == <<"disp", msg, c, s>>
Run(act, c, s) == <<"run", act, c, s>>

\* The calls of `disp(..., FmtOutput(a.Execute()))` on action a: the runner is
\* called only when a is executable.
ExecCalls(a, name, c, s) ==
    (IF a.Executable THEN <<Run(name, c, s)>> ELSE <<>>) \o <<Disp("output", c, s)>>

\* The loop over the cases left at the first case with a failed step.
AfterCaseStopOnFailedStep ==
    IF entry = "case" THEN "done"
    ELSE IF /\ ci < Len(tset.Cases)
            /\ \A s \in DOMAIN tset.Cases[ci].Steps : tset.Cases[ci].Steps[s].Status # "Fail"
         THEN "tc_setup" ELSE "ts_cleanup"

\* Where TestCase.Execute returns to.
AfterCase ==
    IF entry = "case" THEN "done"
    ELSE IF ci < Len(tset.Cases) THEN "tc_setup" ELSE "ts_cleanup"

\* Where TestStep.Execute returns to.
AfterStep ==
    IF entry = "step" THEN "done"
    ELSE IF si < Len(tset.Cases[ci].Steps) THEN "tc_steps" ELSE "tc_cleanup"

\* TestSet.Execute, from its entry to the loop over the cases.
TestSetSetup ==
    /\ pc = "ts_setup"
    /\ \E o \in Outcomes(tset.Setup) :
        LET runs == tset.Setup # NIL /\ tset.Setup.Executable
            setup == IF runs THEN ActionExecute(tset.Setup, o) ELSE tset.Setup
            failed == runs /\ setup.Result = "Fail"
            ts1 == [tset EXCEPT !.Setup = setup]
        IN  /\ tset' = IF failed THEN CleanupAfterTsetSetupFail(ts1) ELSE ts1
            /\ trace' = trace \o <<Disp("enter set", 0, 0)>> \o
                 (IF runs
                  THEN <<Disp("exec setup", 0, 0)>> \o ExecCalls(tset.Setup, "ts.Setup", 0, 0)
                       \o (IF failed THEN <<Disp("abort set", 0, 0)>> ELSE <<>>)
                  ELSE <<Disp("no setup", 0, 0)>>)
            /\ calls' = calls \o (IF runs THEN RunnerCalls(tset.Setup, o) ELSE <<>>)
    /\ pc' = IF Len(tset.Cases) > 0 THEN "tc_setup" ELSE "ts_cleanup"
    /\ ci' = IF Len(tset.Cases) > 0 THEN 1 ELSE 0
    /\ UNCHANGED <<si, entry, inits, tplan, lg, fh>>

\* TestCase.Execute, from its entry to the loop over the steps.
TestCaseSetup ==
    /\ pc = "tc_setup"
    /\ \E o \in Outcomes(tset.Cases[ci].Setup) :
        LET tc == tset.Cases[ci]
            runs == tc.Setup # NIL /\ tc.Setup.Executable
            setup == IF runs THEN ActionExecute(tc.Setup, o) ELSE tc.Setup
            failed == runs /\ setup.Result = "Fail"
            tc1 == [tc EXCEPT !.Setup = setup]
        IN  /\ tset' = [tset EXCEPT !.Cases[ci] =
                          IF failed THEN cleanupAfterCaseSetupFail(tc1) ELSE tc1]
            /\ trace' = trace \o <<Disp("enter case", ci, 0)>> \o
                 (IF runs
                  THEN <<Disp("exec setup", ci, 0)>> \o ExecCalls(tc.Setup, "tc.Setup", ci, 0)
                       \o (IF failed THEN <<Disp("abort case", ci, 0)>> ELSE <<>>)
                  ELSE <<Disp("no setup", ci, 0)>>)
            /\ calls' = calls \o (IF runs THEN RunnerCalls(tc.Setup, o) ELSE <<>>)
    /\ pc' = IF Len(tset.Cases[ci].Steps) > 0 THEN "tc_steps" ELSE "tc_cleanup"
    /\ si' = IF Len(tset.Cases[ci].Steps) > 0 THEN 1 ELSE 0
    /\ UNCHANGED <<ci, entry, inits, tplan, lg, fh>>

\* TestStep.Execute reporting the entry of the step after it has executed the
\* action.
TestStepExecuteEntersLate ==
    /\ pc = "tc_steps"
    /\ \E o \in Outcomes(tset.Cases[ci].Steps[si].Action) :
        LET ts == tset.Cases[ci].Steps[si]
            called == (IF StepRuns(ts)
                       THEN <<Disp("exec step", ci, si)>> \o ExecCalls(ts.Action, "step.Action", ci, si)
                       ELSE <<Disp("empty action", ci, si)>>)
                      \o <<Disp("enter step", ci, si)>>
        IN  IF StepPanics(ts)
            THEN /\ pc' = "panic"
                 /\ trace' = trace \o called
                 /\ UNCHANGED <<tset, si, calls>>
            ELSE /\ tset' = [tset EXCEPT !.Cases[ci].Steps[si] = StepExecute(ts, o)]
                 /\ calls' = calls \o (IF StepRuns(ts) THEN RunnerCalls(ts.Action, o) ELSE <<>>)
                 /\ trace' = trace \o called \o
                      <<Disp("step evaluated", ci, si), Disp("leave step", ci, si)>>
                 /\ pc' = AfterStep
                 /\ si' = IF AfterStep = "tc_steps" THEN si + 1 ELSE si
    /\ UNCHANGED <<ci, entry, inits, tplan, lg, fh>>

\* TestStep.Execute on the step the loop of TestCase.Execute is at.
TestStepExecute ==
    /\ pc = "tc_steps"
    /\ \E o \in Outcomes(tset.Cases[ci].Steps[si].Action) :
        LET ts == tset.Cases[ci].Steps[si]
            called == <<Disp("enter step", ci, si)>> \o
                 (IF StepRuns(ts)
                  THEN <<Disp("exec step", ci, si)>> \o ExecCalls(ts.Action, "step.Action", ci, si)
                  ELSE <<Disp("empty action", ci, si)>>)
        IN  IF StepPanics(ts)
            THEN /\ pc' = "panic"
                 /\ trace' = trace \o called
                 /\ UNCHANGED <<tset, si, calls>>
            ELSE /\ tset' = [tset EXCEPT !.Cases[ci].Steps[si] = StepExecute(ts, o)]
                 /\ calls' = calls \o (IF StepRuns(ts) THEN RunnerCalls(ts.Action, o) ELSE <<>>)
                 /\ trace' = trace \o called \o
                      <<Disp("step evaluated", ci, si), Disp("leave step", ci, si)>>
                 /\ pc' = AfterStep
                 /\ si' = IF AfterStep = "tc_steps" THEN si + 1 ELSE si
    /\ UNCHANGED <<ci, entry, inits, tplan, lg, fh>>

\* The runner results the cleanup branch of TestCase.Execute can meet: it
\* calls tc.Setup.Execute(), and only when tc.Cleanup is executable.
CleanupOutcomes(tc) ==
    IF tc.Cleanup # NIL /\ tc.Cleanup.Executable THEN Outcomes(tc.Setup) ELSE {NoRun}

\* TestCase.Execute, from the end of the loop over the steps to its return.
TestCaseCleanup ==
    /\ pc = "tc_cleanup"
    /\ \E o \in CleanupOutcomes(tset.Cases[ci]) :
        LET tc == tset.Cases[ci]
            cleans == tc.Cleanup # NIL /\ tc.Cleanup.Executable
            again == cleans /\ tc.Setup # NIL
            tc1 == IF again THEN [tc EXCEPT !.Setup = ActionExecute(tc.Setup, o)] ELSE tc
        IN  /\ tset' = [tset EXCEPT !.Cases[ci] = evaluate(tc1)]
            /\ trace' = trace \o
                 (IF cleans
                  THEN <<Disp("exec cleanup", ci, 0)>> \o
                       (IF again THEN ExecCalls(tc.Setup, "tc.Setup", ci, 0) ELSE <<>>)
                  ELSE <<Disp("no cleanup", ci, 0)>>)
                 \o <<Disp("case evaluated", ci, 0), Disp("leave case", ci, 0)>>
            /\ calls' = calls \o (IF again THEN RunnerCalls(tc.Setup, o) ELSE <<>>)
    /\ pc' = AfterCase
    /\ ci' = IF AfterCase = "tc_setup" THEN ci + 1 ELSE ci
    /\ UNCHANGED <<si, entry, inits, tplan, lg, fh>>

\* TestSet.Execute leaving the cleanup action out after a failed setup.
TestSetCleanupUnlessAborted ==
    /\ pc = "ts_cleanup"
    /\ \E o \in Outcomes(tset.Cleanup) :
        LET runs == /\ tset.Cleanup # NIL /\ tset.Cleanup.Executable
                    /\ ~(tset.Setup # NIL /\ tset.Setup.Result = "Fail")
        IN  /\ tset' = IF runs THEN [tset EXCEPT !.Cleanup = ActionExecute(tset.Cleanup, o)]
                       ELSE tset
            /\ trace' = trace \o
                 (IF runs
                  THEN <<Disp("exec cleanup", 0, 0)>> \o ExecCalls(tset.Cleanup, "ts.Cleanup", 0, 0)
                  ELSE <<Disp("no cleanup", 0, 0)>>)
                 \o <<Disp("leave set", 0, 0)>>
            /\ calls' = calls \o (IF runs THEN RunnerCalls(tset.Cleanup, o) ELSE <<>>)
    /\ pc' = "done"
    /\ UNCHANGED <<ci, si, entry, inits, tplan, lg, fh>>

\* TestSet.Execute, from the end of the loop over the cases to its return.
TestSetCleanup ==
    /\ pc = "ts_cleanup"
    /\ \E o \in Outcomes(tset.Cleanup) :
        LET runs == tset.Cleanup # NIL /\ tset.Cleanup.Executable
        IN  /\ tset' = IF runs THEN [tset EXCEPT !.Cleanup = ActionExecute(tset.Cleanup, o)]
                       ELSE tset
            /\ trace' = trace \o
                 (IF runs
                  THEN <<Disp("exec cleanup", 0, 0)>> \o ExecCalls(tset.Cleanup, "ts.Cleanup", 0, 0)
                  ELSE <<Disp("no cleanup", 0, 0)>>)
                 \o <<Disp("leave set", 0, 0)>>
            /\ calls' = calls \o (IF runs THEN RunnerCalls(tset.Cleanup, o) ELSE <<>>)
    /\ pc' = "done"
    /\ UNCHANGED <<ci, si, entry, inits, tplan, lg, fh>>

--------------------------------------------------------------------------
\* Collect: TestSet.Initialize on the set the collector has filled in, before
\* any call of TestSet.Execute; the caller may call Initialize again.

TestSetInitializeCall ==
    /\ entry = "load"
    /\ pc \in {"ts_new", "ts_setup"}
    /\ inits < MaxInits
    /\ tset' = TestSetInitialize(tset)
    /\ pc' = IF SetInitPanics(tset) THEN "panic" ELSE "ts_setup"
    /\ inits' = inits + 1
    /\ UNCHANGED <<ci, si, entry, trace, calls, tplan, lg, fh>>

--------------------------------------------------------------------------
\* TestPlan.ToTestSet called on tplan; tset is the set it builds.

ToTestSetCall ==
    /\ entry = "plan"
    /\ pc = "tp_call"
    /\ tset' = ToTestSet(tplan)
    /\ pc' = IF ToTestSetPanics(tplan) THEN "panic" ELSE "done"
    /\ UNCHANGED <<ci, si, entry, trace, calls, inits, tplan, lg, fh>>

--------------------------------------------------------------------------
\* A caller of the Log and of the FileHandler, and the goroutine of the
\* FileHandler.  The caller adds the handler, starts it, sends and logs
\* messages and then calls Close, whose statements interleave with the
\* goroutine.

LogAddHandler ==
    /\ entry = "log"
    /\ pc = "log_run"
    /\ lg.adds < MaxAdds
    /\ lg' = AddHandler(lg, "fh")
    /\ UNCHANGED <<tset, pc, ci, si, entry, trace, calls, inits, tplan, fh>>

\* Log.Log: h.Send(sev, msg) for every handler of l.Handlers.
LogLog ==
    /\ entry = "log"
    /\ pc = "log_run"
    /\ Len(lg.logged) < MaxLogs
    /\ ~SendBlocks(fh)
    /\ \E sev \in {Error, Debug} :
        LET m == logmsg(sev, Len(fh.sent) + Len(lg.logged) + 1)
        IN  /\ fh' = SendAll(lg.Handlers, fh, m)
            /\ lg' = [lg EXCEPT !.logged = Append(lg.logged,
                         [m |-> m, adds |-> lg.adds, to |-> lg.Handlers])]
    /\ UNCHANGED <<tset, pc, ci, si, entry, trace, calls, inits, tplan>>

\* FileHandler.Start: makes the channels and starts the goroutine.
FileHandlerStart ==
    /\ entry = "log"
    /\ pc = "log_run"
    /\ fh.gpc = "none"
    /\ fh' = [fh EXCEPT !.msgch = [buf |-> <<>>, closed |-> FALSE], !.stop = <<>>,
                        !.gpc = "select"]
    /\ UNCHANGED <<tset, pc, ci, si, entry, trace, calls, inits, tplan, lg>>

\* FileHandler.Send called by the caller.
FileHandlerSend ==
    /\ entry = "log"
    /\ pc = "log_run"
    /\ fh.msgch # NIL
    /\ Len(fh.sent) < MaxSends
    /\ ~SendBlocks(fh)
    /\ \E sev \in {Error, Debug} :
        fh' = Send(fh, logmsg(sev, Len(fh.sent) + Len(lg.logged) + 1))
    /\ UNCHANGED <<tset, pc, ci, si, entry, trace, calls, inits, tplan, lg>>

\* FileHandler.Close, first statement: close(msgch) when stop is not nil.
FileHandlerCloseChannel ==
    /\ entry = "log"
    /\ pc = "log_run"
    /\ fh' = IF fh.stop # NIL THEN [fh EXCEPT !.msgch.closed = TRUE] ELSE fh
    /\ pc' = IF fh.stop # NIL THEN "fh_stop" ELSE "fh_file"
    /\ UNCHANGED <<tset, ci, si, entry, trace, calls, inits, tplan, lg>>

\* FileHandler.Close, second statement: stop <- 1 (the channel has room for it).
FileHandlerCloseStop ==
    /\ pc = "fh_stop"
    /\ fh.stop = <<>>
    /\ fh' = [fh EXCEPT !.stop = <<1>>]
    /\ pc' = "fh_file"
    /\ UNCHANGED <<tset, ci, si, entry, trace, calls, inits, tplan, lg>>

\* FileHandler.Close, last statement: f.file.Close().
FileHandlerCloseFile ==
    /\ pc = "fh_file"
    /\ fh' = [fh EXCEPT !.file = "closed"]
    /\ pc' = "done"
    /\ UNCHANGED <<tset, ci, si, entry, trace, calls, inits, tplan, lg>>

\* The goroutine, case m, ok := <-msgch with a message in the buffer.  (On a
\* closed and empty channel the case yields ok = false and changes nothing.)
GoroutineReceive ==
    /\ entry = "log"
    /\ fh.gpc = "select"
    /\ fh.msgch.buf # <<>>
    /\ fh' = [write(fh, Head(fh.msgch.buf)) EXCEPT !.msgch.buf = Tail(fh.msgch.buf)]
    /\ UNCHANGED <<tset, pc, ci, si, entry, trace, calls, inits, tplan, lg>>

\* The goroutine, case <-stop: it returns.  select takes any case that is
\* ready.
GoroutineStop ==
    /\ entry = "log"
    /\ fh.gpc = "select"
    /\ fh.stop # <<>>
    /\ fh' = [fh EXCEPT !.stop = <<>>, !.gpc = "exited"]
    /\ UNCHANGED <<tset, pc, ci, si, entry, trace, calls, inits, tplan, lg>>

--------------------------------------------------------------------------
\* Action.Init and Action.Execute called on one action, held in tset.Setup.

\* a.Init()
ActionInitCall ==
    /\ pc = "a_call"
    /\ inits < MaxInits
    /\ tset' = [tset EXCEPT !.Setup = ActionInit(tset.Setup)]
    /\ inits' = inits + 1
    /\ UNCHANGED <<pc, ci, si, entry, trace, calls, tplan, lg, fh>>

\* a.Execute()
ActionExecuteCall ==
    /\ pc = "a_call"
    /\ \E o \in Outcomes(tset.Setup) :
        /\ tset' = [tset EXCEPT !.Setup = ActionExecute(tset.Setup, o)]
        /\ calls' = calls \o RunnerCalls(tset.Setup, o)
    /\ pc' = "done"
    /\ UNCHANGED <<ci, si, entry, trace, inits, tplan, lg, fh>>

--------------------------------------------------------------------------
\* The trees the three entry points are called on.

\* Values of Result an action can hold before Execute: "NotTested" from the
\* Create* functions, "Pass" or "Fail" from the result attribute of a loaded
\* file or from an earlier run.
PriorResults == {"NotTested", "Pass", "Fail"}

\* Values of Expected: the two meaningful ones and the unset one.
Expectations == {"Pass", "XFail", ""}

WithResult(acts) == {[a EXCEPT !.Result = r] : a \in acts, r \in PriorResults}

SeqsUpTo(S, n) == UNION {[1..k -> S] : k \in 0..n}

\* Any value of the Action struct: its fields are exported and a loaded file
\* sets each of them, the flags and the result included.
ActionInputs ==
    [Script : {"", "cmd", "missing", "t.xyz", "t.exp", "t.py", "No action"},
     Args : {"", "-v x"},
     Result : PriorResults \cup {""},
     Output : {"", "old"},
     Description : {"", "manual"},
     Executable : BOOLEAN,
     Manual : BOOLEAN]

\* TestStep.Execute called on one step.
StepInputs ==
    {CreateTestStep(e, st, a) :
        e \in Expectations \cup {"NotTested"},
        st \in {"NotTested", "Pass"},
        a \in {NIL} \cup WithResult({CreateAction("cmd", ""), CreateAction("missing", ""),
                                     CreateAction("t.xyz", ""), CreateManualAction("manual"),
                                     CreateEmptyAction})}

\* TestCase.Execute called on one case.
CaseStepInputs ==
    {CreateTestStep(e, "NotTested", a) :
        e \in Expectations,
        a \in {NIL, CreateAction("cmd", ""), CreateManualAction("manual")}}

CaseInputs ==
    {CaseAppend(CreateTestCase(setup, cleanup, e, "NotTested"), steps) :
        setup \in {NIL, CreateEmptyAction, CreateAction("cmd", "")},
        cleanup \in {NIL, CreateEmptyAction} \cup WithResult({CreateAction("cmd", "")}),
        e \in Expectations,
        steps \in SeqsUpTo(CaseStepInputs, MaxSteps)}

\* TestSet.Execute called on a set whose steps all hold an action.
SetCaseInputs ==
    {CaseAppend(CreateTestCase(setup, CreateEmptyAction, "Pass", "NotTested"), steps) :
        setup \in {CreateEmptyAction, CreateAction("cmd", "")},
        steps \in SeqsUpTo({CreateTestStep("Pass", "NotTested", CreateAction("cmd", ""))},
                           MaxSetSteps)}

SetInputs ==
    {SetAppend(CreateTestSet(setup, cleanup), cases) :
        setup \in {CreateEmptyAction, CreateAction("cmd", "")},
        cleanup \in {CreateEmptyAction, CreateAction("cmd", "")},
        cases \in SeqsUpTo(SetCaseInputs, MaxCases)}

\* TestSet.Execute
Init ==
    /\ tset \in SetInputs
    /\ pc = "ts_setup"
    /\ ci = 0
    /\ si = 0
    /\ entry = "set"
    /\ trace = <<>>
    /\ calls = <<>>
    /\ inits = 0
    /\ tplan = NIL
    /\ lg = NIL
    /\ fh = NIL

Next ==
    \/ TestSetSetup
    \/ TestCaseSetup
    \/ TestStepExecute
    \/ TestCaseCleanup
    \/ TestSetCleanup

Spec == Init /\ [][Next]_vars

\* TestCase.Execute
InitCase ==
    /\ \E tc \in CaseInputs : tset = SetAppend(CreateTestSet(NIL, NIL), <<tc>>)
    /\ pc = "tc_setup"
    /\ ci = 1
    /\ si = 0
    /\ entry = "case"
    /\ trace = <<>>
    /\ calls = <<>>
    /\ inits = 0
    /\ tplan = NIL
    /\ lg = NIL
    /\ fh = NIL

NextCase ==
    \/ TestCaseSetup
    \/ TestStepExecute
    \/ TestCaseCleanup

SpecCase == InitCase /\ [][NextCase]_vars

\* TestStep.Execute
InitStep ==
    /\ \E ts \in StepInputs :
         tset = SetAppend(CreateTestSet(NIL, NIL),
                  <<CaseAppend(CreateTestCase(NIL, NIL, "Pass", "NotTested"), <<ts>>)>>)
    /\ pc = "tc_steps"
    /\ ci = 1
    /\ si = 1
    /\ entry = "step"
    /\ trace = <<>>
    /\ calls = <<>>
    /\ inits = 0
    /\ tplan = NIL
    /\ lg = NIL
    /\ fh = NIL

NextStep == TestStepExecute

SpecStep == InitStep /\ [][NextStep]_vars

\* Action.Init, Action.Execute
InitAction ==
    /\ \E a \in ActionInputs : tset = CreateTestSet(a, NIL)
    /\ pc = "a_call"
    /\ ci = 0
    /\ si = 0
    /\ entry = "action"
    /\ trace = <<>>
    /\ calls = <<>>
    /\ inits = 0
    /\ tplan = NIL
    /\ lg = NIL
    /\ fh = NIL

NextAction ==
    \/ ActionInitCall
    \/ ActionExecuteCall

SpecAction == InitAction /\ [][NextAction]_vars

\* An action as a collector decodes it from a file that gives its script and
\* description only.
RawAction(script, descr) ==
    [Script |-> script, Args |-> "", Result |-> "", Output |-> "",
     Description |-> descr, Executable |-> FALSE, Manual |-> FALSE]

\* The steps of a collected set: Expected and Action as the file gives them,
\* the action missing or with flags the file got wrong included.
LoadStepInputs ==
    {CreateTestStep("", "", RawAction("cmd", "")),
     CreateTestStep("XFail", "", RawAction("cmd", "")),
     CreateTestStep("", "", RawAction("", "manual")),
     CreateTestStep("XFail", "", RawAction("", "")),
     CreateTestStep("", "", [RawAction("", "manual") EXCEPT !.Executable = TRUE]),
     CreateTestStep("", "", NIL)}

LoadCaseInputs ==
    {CaseAppend(CreateTestCase(NIL, NIL, "Pass", ""), steps) :
        steps \in SeqsUpTo(LoadStepInputs, MaxLoadSteps)}

LoadInputs ==
    {SetAppend(CreateTestSet(setup, NIL), cases) :
        setup \in {NIL, CreateAction("cmd", ""), RawAction("cmd", "")},
        cases \in SeqsUpTo(LoadCaseInputs, MaxLoadCases)}

\* Collect, then TestSet.Execute
InitLoad ==
    /\ tset \in LoadInputs
    /\ pc = "ts_new"
    /\ ci = 0
    /\ si = 0
    /\ entry = "load"
    /\ trace = <<>>
    /\ calls = <<>>
    /\ inits = 0
    /\ tplan = NIL
    /\ lg = NIL
    /\ fh = NIL

NextLoad ==
    \/ TestSetInitializeCall
    \/ TestSetSetup
    \/ TestCaseSetup
    \/ TestStepExecute
    \/ TestCaseCleanup
    \/ TestSetCleanup

SpecLoad == InitLoad /\ [][NextLoad]_vars

\* TestSet.Execute followed to its return, on normalized sets whose commands
\* succeed, exit with an error or cannot be launched.  A call that has started
\* goes on: the engine is sequential and every call of the runner returns.
LiveStepInputs ==
    {CreateTestStep(e, "NotTested", a) :
        e \in {"Pass"},
        a \in {CreateAction("cmd", ""), CreateAction("missing", ""), CreateEmptyAction}}

LiveCaseInputs ==
    {CaseAppend(CreateTestCase(setup, CreateEmptyAction, "Pass", "NotTested"), steps) :
        setup \in {CreateAction("missing", "")},
        steps \in SeqsUpTo(LiveStepInputs, MaxLiveSteps)}

LiveInputs ==
    {SetAppend(CreateTestSet(CreateAction("cmd", ""), CreateAction("t.xyz", "")), cases) :
        cases \in SeqsUpTo(LiveCaseInputs, MaxLiveCases)}

InitLive ==
    /\ tset \in LiveInputs
    /\ pc = "ts_setup"
    /\ ci = 0
    /\ si = 0
    /\ entry = "set"
    /\ trace = <<>>
    /\ calls = <<>>
    /\ inits = 0
    /\ tplan = NIL
    /\ lg = NIL
    /\ fh = NIL

SpecLive == InitLive /\ [][Next]_vars /\ WF_vars(Next)

\* The plans TestPlan.ToTestSet is called on.
PlanNames == SeqsUpTo({"a", "b"}, MaxNameLen)

PlanInputs ==
    {PlanAppend(CreateTestPlan(name, descr, setup, cleanup), cases) :
        name \in PlanNames,
        descr \in {<<>>, <<"d">>},
        setup \in {NIL, CreateEmptyAction, CreateAction("cmd", "")},
        cleanup \in {NIL, CreateEmptyAction},
        cases \in SeqsUpTo({CreateTestCase(NIL, NIL, "Pass", "NotTested")}, 1)}

\* TestPlan.ToTestSet
InitPlan ==
    /\ tplan \in PlanInputs
    /\ tset = NIL
    /\ pc = "tp_call"
    /\ ci = 0
    /\ si = 0
    /\ entry = "plan"
    /\ trace = <<>>
    /\ calls = <<>>
    /\ inits = 0
    /\ lg = NIL
    /\ fh = NIL

NextPlan == ToTestSetCall

SpecPlan == InitPlan /\ [][NextPlan]_vars

\* Log and FileHandler
InitLog ==
    /\ lg = NewLog
    /\ fh = NewFileHandler(Warning)
    /\ tset = NIL
    /\ tplan = NIL
    /\ pc = "log_run"
    /\ ci = 0
    /\ si = 0
    /\ entry = "log"
    /\ trace = <<>>
    /\ calls = <<>>
    /\ inits = 0

NextLog ==
    \/ LogAddHandler
    \/ LogLog
    \/ FileHandlerStart
    \/ FileHandlerSend
    \/ FileHandlerCloseChannel
    \/ FileHandlerCloseStop
    \/ FileHandlerCloseFile
    \/ GoroutineReceive
    \/ GoroutineStop

SpecLog == InitLog /\ [][NextLog]_vars

--------------------------------------------------------------------------
\* Properties

Occurs(e) == \E i \in DOMAIN trace : trace[i] = e
Positions(e) == {i \in DOMAIN trace : trace[i] = e}

\* The case TestCase.Execute was called on, and the call has returned.
TheCase == tset.Cases[1]
CaseReturned == entry = "case" /\ pc = "done"

\* The step TestStep.Execute was called on, and the call has returned.
TheStep == tset.Cases[1].Steps[1]
StepReturned == entry = "step" /\ pc = "done"

SetReturned == entry = "set" /\ pc = "done"

ResultIs(a, r) == a # NIL /\ a.Result = r
AnyStep(tc, st) == \E i \in DOMAIN tc.Steps : tc.Steps[i].Status = st
EveryStep(tc, st) == \A i \in DOMAIN tc.Steps : tc.Steps[i].Status = st

\* C1: when TestCase.Execute has returned for a case with Expected = Pass, the
\* case Status is Fail if Setup.Result or Cleanup.Result is Fail or some step
\* Status is Fail; else NotTested if every step Status is NotTested (also
\* with no steps); else Pass.
C1_ExpectedPassStatus ==
    (CaseReturned /\ TheCase.Expected = "Pass") =>
        TheCase.Status =
            IF \/ ResultIs(TheCase.Setup, "Fail")
               \/ ResultIs(TheCase.Cleanup, "Fail")
               \/ AnyStep(TheCase, "Fail")
            THEN "Fail"
            ELSE IF EveryStep(TheCase, "NotTested") THEN "NotTested" ELSE "Pass"

\* A Pass case that ends Pass although one of its two steps is NotTested.
C1_Witness ==
    /\ CaseReturned
    /\ TheCase.Expected = "Pass"
    /\ TheCase.Status = "Pass"
    /\ Len(TheCase.Steps) = 2
    /\ TheCase.Steps[1].Status = "NotTested"
    /\ TheCase.Steps[2].Status = "Pass"

\* C2: when TestCase.Execute has returned for a case with Expected = XFail,
\* the case Status is Fail if Setup.Result or Cleanup.Result is Pass or some
\* step Status is Pass; else NotTested if every step Status is NotTested;
\* else Pass.
C2_ExpectedXFailStatus ==
    (CaseReturned /\ TheCase.Expected = "XFail") =>
        TheCase.Status =
            IF \/ ResultIs(TheCase.Setup, "Pass")
               \/ ResultIs(TheCase.Cleanup, "Pass")
               \/ AnyStep(TheCase, "Pass")
            THEN "Fail"
            ELSE IF EveryStep(TheCase, "NotTested") THEN "NotTested" ELSE "Pass"

\* An XFail case that ends Fail only because its setup passed.
C2_Witness ==
    /\ CaseReturned
    /\ TheCase.Expected = "XFail"
    /\ ResultIs(TheCase.Setup, "Pass")
    /\ ~ResultIs(TheCase.Cleanup, "Pass")
    /\ Len(TheCase.Steps) = 2
    /\ EveryStep(TheCase, "Fail")
    /\ TheCase.Status = "Fail"

\* C3: when the setup action of a case was executed and ended with Fail, then
\* at the return of TestCase.Execute every step Status is NotTested and the
\* case Status is Fail.
C3_SetupFailSkipsCase ==
    (CaseReturned /\ Occurs(Disp("abort case", 1, 0))) =>
        (EveryStep(TheCase, "NotTested") /\ TheCase.Status = "Fail")

\* C4: once the setup action of a case has ended with Fail, TestCase.Execute
\* enters no step and calls the process runner no more.
C4_SetupFailRunsNothing ==
    \A i \in Positions(Disp("abort case", 1, 0)) :
        \A j \in DOMAIN trace :
            j > i => (trace[j][1] # "run" /\ trace[j][2] # "enter step")

\* C5: when TestStep.Execute has returned for a step with Expected = Pass, the
\* step Status is Pass if Action.Result is Pass and Fail otherwise.
C5_StepExpectedPass ==
    (StepReturned /\ TheStep.Expected = "Pass") =>
        /\ TheStep.Action # NIL
        /\ TheStep.Status = IF TheStep.Action.Result = "Pass" THEN "Pass" ELSE "Fail"

\* A Pass step that ends Fail on an action the runner was never called for.
C5_Witness ==
    /\ StepReturned
    /\ TheStep.Expected = "Pass"
    /\ TheStep.Action.Manual
    /\ TheStep.Action.Result = "NotTested"
    /\ TheStep.Status = "Fail"

\* C6: when TestStep.Execute has returned for a step with Expected = XFail,
\* the step Status is Pass if Action.Result is not Pass and Fail otherwise.
C6_StepExpectedXFail ==
    (StepReturned /\ TheStep.Expected = "XFail") =>
        /\ TheStep.Action # NIL
        /\ TheStep.Status = IF TheStep.Action.Result # "Pass" THEN "Pass" ELSE "Fail"

\* An XFail step that ends Pass on an action whose Result is NotTested.
C6_Witness ==
    /\ StepReturned
    /\ TheStep.Expected = "XFail"
    /\ ~TheStep.Action.Executable
    /\ TheStep.Action.Result = "NotTested"
    /\ TheStep.Status = "Pass"

\* C7: a step or a case whose Expected is neither Pass nor XFail has Status
\* NotTested after its Execute, whatever the results below it, and Execute
\* does not stop on it with an error.
C7_OtherExpectedNotTested ==
    /\ (CaseReturned /\ TheCase.Expected \notin {"Pass", "XFail"}) =>
            TheCase.Status = "NotTested"
    /\ CaseReturned =>
            \A i \in DOMAIN TheCase.Steps :
                TheCase.Steps[i].Expected \notin {"Pass", "XFail"} =>
                    TheCase.Steps[i].Status = "NotTested"
    /\ pc = "panic" => TheCase.Steps[si].Expected \in {"Pass", "XFail"}

\* A case with Expected unset that ends NotTested over a failed setup and a
\* failed step, and a step with Expected unset and no action that ends
\* NotTested.
C7_Witness ==
    /\ CaseReturned
    /\ TheCase.Expected = ""
    /\ ResultIs(TheCase.Setup, "Fail")
    /\ Len(TheCase.Steps) = 2
    /\ TheCase.Steps[1].Status = "Fail"
    /\ TheCase.Steps[2].Expected = ""
    /\ TheCase.Steps[2].Action = NIL
    /\ TheCase.Status = "NotTested"

\* C8: when the setup action of the set was executed and ended with Fail, no
\* case is executed, and at the return of TestSet.Execute every step of every
\* case has Status NotTested.
C8_SetSetupFailSkipsCases ==
    Occurs(Disp("abort set", 0, 0)) =>
        /\ \A c \in DOMAIN tset.Cases : ~Occurs(Disp("enter case", c, 0))
        /\ SetReturned => \A c \in DOMAIN tset.Cases : EveryStep(tset.Cases[c], "NotTested")

\* C9: when the setup action of the set has failed and the cleanup action of
\* the set is executable, TestSet.Execute has at its return executed the
\* cleanup action exactly once, after the abort message and before the exit
\* message.
C9_SetCleanupAfterAbort ==
    (SetReturned /\ Occurs(Disp("abort set", 0, 0)) /\ tset.Cleanup.Executable) =>
        /\ Cardinality(Positions(Run("ts.Cleanup", 0, 0))) = 1
        /\ \A r \in Positions(Run("ts.Cleanup", 0, 0)) :
              /\ \A a \in Positions(Disp("abort set", 0, 0)) : a < r
              /\ \A l \in Positions(Disp("leave set", 0, 0)) : r < l
        /\ tset.Cleanup.Result \in {"Pass", "Fail"}

\* The set setup failed, two cases lie in between, and the cleanup has run.
C9_Witness ==
    /\ SetReturned
    /\ Occurs(Disp("abort set", 0, 0))
    /\ Len(tset.Cases) = 2
    /\ Occurs(Run("ts.Cleanup", 0, 0))
    /\ tset.Cleanup.Result = "Pass"

\* C10: in a case whose setup did not fail and whose cleanup action is
\* executable, TestCase.Execute executes the cleanup action once, after the
\* last step, which leaves Cleanup.Result Pass or Fail, and executes the
\* setup action at most once.
C10_CaseCleanupExecuted ==
    (CaseReturned /\ ~Occurs(Disp("abort case", 1, 0))
        /\ TheCase.Cleanup # NIL /\ TheCase.Cleanup.Executable) =>
        /\ Cardinality(Positions(Run("tc.Cleanup", 1, 0))) = 1
        /\ \A r \in Positions(Run("tc.Cleanup", 1, 0)) :
              \A i \in DOMAIN TheCase.Steps :
                  \A l \in Positions(Disp("leave step", 1, i)) : l < r
        /\ TheCase.Cleanup.Result \in {"Pass", "Fail"}
        /\ Cardinality(Positions(Run("tc.Setup", 1, 0))) <= 1

\* The calls TestSet.Execute makes for the cases and their steps when it runs
\* each once and in the order of the lists: a case is entered, its steps are
\* entered, run and left one after the other, and the case is left.
StepEvents(c, s) ==
    <<Disp("enter step", c, s)>>
    \o (IF tset.Cases[c].Steps[s].Action.Executable THEN <<Run("step.Action", c, s)>> ELSE <<>>)
    \o <<Disp("leave step", c, s)>>

RECURSIVE StepsEvents(_, _)
StepsEvents(c, n) == IF n = 0 THEN <<>> ELSE StepsEvents(c, n - 1) \o StepEvents(c, n)

RECURSIVE CasesEvents(_)
CasesEvents(n) ==
    IF n = 0 THEN <<>>
    ELSE CasesEvents(n - 1) \o <<Disp("enter case", n, 0)>>
         \o StepsEvents(n, Len(tset.Cases[n].Steps)) \o <<Disp("leave case", n, 0)>>

IsCaseOrStepEvent(e) ==
    \/ e[1] = "disp" /\ e[2] \in {"enter case", "leave case", "enter step", "leave step"}
    \/ e[1] = "run" /\ e[2] = "step.Action"

NoSetupFailed ==
    /\ \A i \in DOMAIN trace : trace[i][2] \notin {"abort set", "abort case"}
    /\ tset.Setup.Result # "Fail"
    /\ \A c \in DOMAIN tset.Cases : tset.Cases[c].Setup.Result # "Fail"

\* C11: when no setup fails, TestSet.Execute executes every case once, in the
\* order of the list, and within a case every step once, in the order of the
\* list; a failed step or case does not keep the later ones from running.
C11_EveryCaseAndStepOnce ==
    (SetReturned /\ NoSetupFailed) =>
        /\ SelectSeq(trace, IsCaseOrStepEvent) = CasesEvents(Len(tset.Cases))
        /\ \A c \in DOMAIN tset.Cases : \A s \in DOMAIN tset.Cases[c].Steps :
               tset.Cases[c].Steps[s].Status \in {"Pass", "Fail"}

\* The first step of the first case has failed, and the second step and the
\* second case have run.
C11_Witness ==
    /\ SetReturned
    /\ NoSetupFailed
    /\ Len(tset.Cases) = 2
    /\ Len(tset.Cases[1].Steps) = 2
    /\ tset.Cases[1].Steps[1].Status = "Fail"
    /\ tset.Cases[1].Steps[2].Status = "Pass"
    /\ tset.Cases[1].Status = "Fail"
    /\ Len(tset.Cases[2].Steps) = 1
    /\ tset.Cases[2].Steps[1].Status = "Pass"

\* The action Action.Init and Action.Execute were called on, and Execute has
\* returned.
TheAction == tset.Setup
ActionReturned == entry = "action" /\ pc = "done"

\* C12: Action.Execute on an executable action calls the process runner once,
\* with the action's script and its split arguments, and returns with Result
\* Pass when the runner returns no error and Fail when it returns one: a
\* non-zero exit, a failed launch or an unsupported script type.
C12_ExecutableResult ==
    (ActionReturned /\ TheAction.Executable) =>
        /\ Len(calls) = 1
        /\ calls[1].script = TheAction.Script
        /\ calls[1].args = Split(TheAction.Args)
        /\ TheAction.Output = calls[1].output
        /\ TheAction.Result = IF calls[1].err THEN "Fail" ELSE "Pass"
        /\ TheAction.Script \in {"", "missing"} => TheAction.Result = "Fail"
        /\ determineType(TheAction.Script) = "UnknownScript" => TheAction.Result = "Fail"

\* The runner has refused a script of an unsupported type and Execute has
\* returned with Result Fail.
C12_Witness ==
    /\ ActionReturned
    /\ TheAction.Executable
    /\ TheAction.Script = "t.xyz"
    /\ TheAction.Args = "-v x"
    /\ calls[1].err
    /\ TheAction.Result = "Fail"

\* C13: Action.Execute on a manual action sets Output to Description and
\* leaves Result as it was before the call.
C13_ManualKeepsResult ==
    [][(entry = "action" /\ pc = "a_call" /\ pc' = "done"
            /\ TheAction.Manual /\ ~TheAction.Executable) =>
        (TheAction'.Output = TheAction.Description /\ TheAction'.Result = TheAction.Result)]_vars

\* C13 as the code has it: Action.Execute on a manual action sets Output to
\* Description and Result to NotTested, and does not call the runner.
C13_ManualResetsResult ==
    (ActionReturned /\ TheAction.Manual /\ ~TheAction.Executable) =>
        /\ TheAction.Output = TheAction.Description
        /\ TheAction.Result = "NotTested"
        /\ calls = <<>>

\* Execute has returned on a manual action that was not classified again.
C13_Witness ==
    /\ ActionReturned
    /\ inits = 0
    /\ tplan = NIL
    /\ lg = NIL
    /\ fh = NIL
    /\ TheAction.Manual
    /\ ~TheAction.Executable
    /\ TheAction.Description = "manual"
    /\ TheAction.Output = "manual"
    /\ TheAction.Result = "NotTested"

C15_InitClassifies ==
    [][(entry = "action" /\ inits' = inits + 1) =>
        /\ TheAction'.Executable = (TheAction.Script # "")
        /\ TheAction'.Manual = (TheAction.Script = "" /\ TheAction.Description # "")
        /\ ~(TheAction'.Executable /\ TheAction'.Manual)
        /\ TheAction'.Script = TheAction.Script
        /\ TheAction'.Description = TheAction.Description
        /\ (inits >= 1 => TheAction' = TheAction)]_vars

\* Init was called twice on an action with a script and a description.
C15_Witness ==
    /\ entry = "action"
    /\ pc = "a_call"
    /\ inits = 2
    /\ TheAction.Script = "cmd"
    /\ TheAction.Description = "manual"
    /\ TheAction.Executable
    /\ ~TheAction.Manual

\* A set under Collect, and the steps of it that hold no action.
Loading == entry = "load"
StepsWithoutAction ==
    {<<c, s>> \in (DOMAIN tset.Cases) \X (1..MaxLoadSteps + 1) :
        s \in DOMAIN tset.Cases[c].Steps /\ tset.Cases[c].Steps[s].Action = NIL}

\* C16: TestSet.Initialize on a set with a step that has no action does not
\* return: TestStep.Initialize panics, and no call of an Execute method is
\* made on that set, before or after.
C16_NilActionAborts ==
    (Loading /\ StepsWithoutAction # {}) =>
        /\ pc \in {"ts_new", "panic"}
        /\ inits > 0 => pc = "panic"
        /\ trace = <<>>
        /\ calls = <<>>

\* Initialize has panicked at a step without action.
C16_Witness ==
    /\ Loading
    /\ inits = 1
    /\ pc = "panic"
    /\ Len(tset.Cases) = 1
    /\ Len(tset.Cases[1].Steps) = 1
    /\ tset.Cases[1].Steps[1].Action = NIL
    /\ tset.Cases[1].Setup = CreateEmptyAction

\* C17: a call of Initialize that returns sets the Expected of a step to Pass
\* exactly when it was empty and the action of the step is executable (has a
\* script); any other Expected is left as it was, an empty one on an action
\* that is not executable included.
C17_ExpectedDefault ==
    [][(Loading /\ inits' = inits + 1 /\ pc' = "ts_setup") =>
        \A c \in DOMAIN tset.Cases : \A s \in DOMAIN tset.Cases[c].Steps :
            /\ tset'.Cases[c].Steps[s].Action.Executable
                   = (tset.Cases[c].Steps[s].Action.Script # "")
            /\ tset'.Cases[c].Steps[s].Expected =
                   IF /\ tset.Cases[c].Steps[s].Expected = ""
                      /\ tset'.Cases[c].Steps[s].Action.Executable
                   THEN "Pass" ELSE tset.Cases[c].Steps[s].Expected]_vars

\* Initialize has given the step with a script and no Expected the Expected
\* Pass.
C17_Witness ==
    /\ Loading
    /\ inits = 1
    /\ pc = "ts_setup"
    /\ Len(tset.Cases) = 1
    /\ Len(tset.Cases[1].Steps) = 1
    /\ tset.Cases[1].Steps[1].Action.Executable
    /\ tset.Cases[1].Steps[1].Expected = "Pass"
    /\ tset.Cases[1].Steps[1].Status = "NotTested"

\* C18: a call of TestSet.Initialize on a set that was initialized and not
\* executed changes nothing in the set, the defaulted setup and cleanup
\* actions included.
C18_InitializeIdempotent ==
    [][(Loading /\ inits >= 1 /\ inits' = inits + 1) =>
        (tset' = tset /\ pc' = pc)]_vars

\* Initialize was called twice on a set without setup and cleanup whose step
\* got its Expected from the first call.
C18_Witness ==
    /\ Loading
    /\ inits = 2
    /\ pc = "ts_setup"
    /\ tset.Setup = CreateEmptyAction
    /\ tset.Cleanup = CreateEmptyAction
    /\ Len(tset.Cases) = 1
    /\ tset.Cases[1].Setup = CreateEmptyAction
    /\ Len(tset.Cases[1].Steps) = 1
    /\ tset.Cases[1].Steps[1].Action.Executable
    /\ tset.Cases[1].Steps[1].Expected = "Pass"

\* The step's command was run by TestStep.Execute and has failed.
StepCommandFailed(ts) ==
    /\ ts.Action # NIL
    /\ ts.Action.Executable
    /\ ts.Action.Result = "Fail"
    /\ Occurs(Run("step.Action", 1, 1))

\* C19: when TestCase.Execute has returned for a case with Expected = XFail
\* and a single step (Expected = XFail) whose command has failed, the step
\* Status is Pass and the case Status is Pass.
C19_XFailCaseFailingStep ==
    (CaseReturned /\ TheCase.Expected = "XFail" /\ Len(TheCase.Steps) = 1
        /\ TheStep.Expected = "XFail" /\ StepCommandFailed(TheStep)) =>
        (TheStep.Status = "Pass" /\ TheCase.Status = "Pass")

\* C19 as the code has it: the XFail step whose command has failed is Pass and
\* that makes the XFail case Fail; with Expected = Pass the step is Fail, and
\* the case is Pass unless the Result of its setup or cleanup is Pass.
C19_XFailCaseFailsOnPassedStep ==
    (CaseReturned /\ TheCase.Expected = "XFail" /\ Len(TheCase.Steps) = 1
        /\ StepCommandFailed(TheStep)) =>
        /\ TheStep.Expected = "XFail" =>
               (TheStep.Status = "Pass" /\ TheCase.Status = "Fail")
        /\ TheStep.Expected = "Pass" =>
               /\ TheStep.Status = "Fail"
               /\ TheCase.Status =
                      IF ResultIs(TheCase.Setup, "Pass") \/ ResultIs(TheCase.Cleanup, "Pass")
                      THEN "Fail" ELSE "Pass"

\* An XFail case without setup and cleanup whose one XFail step has failed as
\* expected: the step is Pass, the case Fail.
C19_Witness ==
    /\ CaseReturned
    /\ TheCase.Expected = "XFail"
    /\ TheCase.Setup = NIL
    /\ TheCase.Cleanup = NIL
    /\ Len(TheCase.Steps) = 1
    /\ TheStep.Expected = "XFail"
    /\ StepCommandFailed(TheStep)
    /\ TheStep.Status = "Pass"
    /\ TheCase.Status = "Fail"

\* The call of the runner TestSet.Execute made for the one step of its one case.
StepCall == calls[IF tset.Setup.Executable THEN 2 ELSE 1]

\* C20: when TestSet.Execute has returned for a set with one case (Expected =
\* Pass, setup and cleanup not executable) of one step (Expected = Pass,
\* executable action), the step and the case are Pass when the command has
\* succeeded, and the action Result, the step and the case are Fail when the
\* command has failed.
C20_OneCaseOneStep ==
    (SetReturned /\ Len(tset.Cases) = 1 /\ TheCase.Expected = "Pass"
        /\ ~TheCase.Setup.Executable /\ ~TheCase.Cleanup.Executable
        /\ Len(TheCase.Steps) = 1 /\ TheStep.Expected = "Pass"
        /\ TheStep.Action.Executable) =>
        /\ Len(calls) >= 1
        /\ StepCall.script = TheStep.Action.Script
        /\ ~StepCall.err =>
               /\ TheStep.Action.Result = "Pass"
               /\ TheStep.Status = "Pass"
               /\ TheCase.Status = "Pass"
        /\ StepCall.err =>
               /\ TheStep.Action.Result = "Fail"
               /\ TheStep.Status = "Fail"
               /\ TheCase.Status = "Fail"

\* The command of the one step has failed; the set has no setup of its own.
C20_Witness ==
    /\ SetReturned
    /\ ~tset.Setup.Executable
    /\ Len(tset.Cases) = 1
    /\ ~TheCase.Setup.Executable
    /\ Len(TheCase.Steps) = 1
    /\ StepCall.err
    /\ TheStep.Action.Result = "Fail"
    /\ TheStep.Status = "Fail"
    /\ TheCase.Status = "Fail"

\* TestPlan.ToTestSet has returned or panicked.
ToTestSetLeft == entry = "plan" /\ pc # "tp_call"

\* C21: TestPlan.ToTestSet completes for every plan, and the set it returns
\* holds the plan's setup, cleanup and cases.
C21_ToTestSetCompletes ==
    ToTestSetLeft =>
        /\ pc = "done"
        /\ tset.Setup = tplan.Setup
        /\ tset.Cleanup = tplan.Cleanup
        /\ tset.Cases = tplan.Cases

\* C24: the set TestPlan.ToTestSet builds has the name and the description of
\* the plan, since CopyS(s) = s.
C24_CopySEqual ==
    ToTestSetLeft =>
        /\ tset.Name = tplan.Name
        /\ tset.Description = tplan.Description

\* The last call TestSet.Execute makes is the report that it leaves the set.
ExitReported == trace # <<>> /\ trace[Len(trace)] = Disp("leave set", 0, 0)

\* C22: TestSet.Execute on a normalized set never panics and always returns,
\* after its exit report, whatever the runner returns for the commands.
C22_ExecuteCompletes ==
    /\ [](pc # "panic")
    /\ <>(SetReturned /\ ExitReported)

\* TestSet.Execute has returned after a setup and a step that could not be
\* launched, a step that exited with an error and a cleanup of unknown type.
C22_Witness ==
    /\ SetReturned
    /\ ExitReported
    /\ tset.Setup.Result = "Fail"
    /\ tset.Cleanup.Result = "Fail"
    /\ Len(tset.Cases) = 1
    /\ tset.Cases[1].Setup.Script = "missing"
    /\ tset.Cases[1].Setup.Result = "Fail"
    /\ Len(tset.Cases[1].Steps) = 2
    /\ tset.Cases[1].Steps[1].Action.Script = "missing"
    /\ tset.Cases[1].Steps[1].Status = "Fail"
    /\ tset.Cases[1].Steps[2].Action.Script = "cmd"
    /\ tset.Cases[1].Steps[2].Status = "Fail"

Range(seq) == {seq[i] : i \in DOMAIN seq}
PassesFilter(m) == fh.sev >= m.sev

\* C23: once Log.AddHandler has returned, the handler is in l.Handlers, and
\* every message logged after that was sent to the handler.
C23_AddHandlerAppends ==
    (entry = "log" /\ lg.adds > 0) =>
        /\ "fh" \in Range(lg.Handlers)
        /\ \A i \in DOMAIN lg.logged :
               lg.logged[i].adds > 0 => "fh" \in Range(lg.logged[i].to)

\* C29: when the goroutine of a started handler has exited, every message
\* Send has accepted before Close that passes the severity filter was written,
\* in the order of the calls of Send.
C29_NoMessageLost ==
    (entry = "log" /\ fh.gpc = "exited") =>
        fh.written = SelectSeq(fh.sent, PassesFilter)

\* C26: an action built by CreateEmptyAction is neither Executable nor Manual
\* after Action.Init, and its execution does not call the runner.
C26_EmptyActionStaysEmpty ==
    (entry = "action" /\ inits > 0
        /\ [TheAction EXCEPT !.Executable = FALSE, !.Manual = FALSE,
                             !.Result = "NotTested", !.Output = ""]
           = CreateEmptyAction) =>
        /\ ~TheAction.Executable
        /\ ~TheAction.Manual
        /\ calls = <<>>

\* C30: a call of Action.Execute on an executable action starts at most one
\* process: none when the type of the script is unknown, and then Result is
\* Fail, and one when the type is known and the program can be launched.
C30_AtMostOneProcess ==
    (ActionReturned /\ TheAction.Executable) =>
        /\ Len(calls) = 1
        /\ Len(calls[1].procs) <= 1
        /\ determineType(TheAction.Script) = "UnknownScript" =>
               (calls[1].procs = <<>> /\ calls[1].err /\ TheAction.Result = "Fail")
        /\ (determineType(TheAction.Script) # "UnknownScript"
                /\ TheAction.Script \notin {"", "missing"}) =>
               Len(calls[1].procs) = 1

\* Every call e2 made so far was preceded by a call e1.
Preceded(e1, e2) == \A j \in Positions(e2) : \E i \in Positions(e1) : i < j
\* Every call e1 made so far was made before every call e2.
AllBefore(e1, e2) == \A i \in Positions(e1) : \A j \in Positions(e2) : i < j

StepNested(c, s) ==
    /\ Preceded(Disp("enter step", c, s), Run("step.Action", c, s))
    /\ Preceded(Disp("enter step", c, s), Disp("step evaluated", c, s))
    /\ AllBefore(Run("step.Action", c, s), Disp("step evaluated", c, s))
    /\ Preceded(Disp("step evaluated", c, s), Disp("leave step", c, s))
    /\ Preceded(Disp("enter case", c, 0), Disp("enter step", c, s))
    /\ AllBefore(Disp("leave step", c, s), Disp("leave case", c, 0))
    /\ Occurs(Disp("leave case", c, 0)) => Occurs(Disp("leave step", c, s))

CaseNested(c) ==
    /\ Preceded(Disp("enter set", 0, 0), Disp("enter case", c, 0))
    /\ Preceded(Disp("enter case", c, 0), Disp("leave case", c, 0))
    /\ AllBefore(Disp("leave case", c, 0), Disp("leave set", 0, 0))
    /\ Occurs(Disp("leave set", 0, 0)) => Occurs(Disp("leave case", c, 0))
    /\ \A s \in DOMAIN tset.Cases[c].Steps : StepNested(c, s)

C28_NonExecutableStep ==
    [][(entry = "step" /\ pc = "tc_steps" /\ TheStep.Action # NIL
            /\ ~TheStep.Action.Executable) =>
        /\ TheStep'.Action = TheStep.Action
        /\ calls' = calls
        /\ ~\E i \in DOMAIN trace' : trace'[i][1] = "run"
        /\ (TheStep.Action.Result = "NotTested" /\ TheStep.Expected = "Pass") =>
               TheStep'.Status = "Fail"
        /\ (TheStep.Action.Result = "NotTested" /\ TheStep.Expected = "XFail") =>
               TheStep'.Status = "Pass"]_vars

\* TestStep.Execute has returned on an XFail step with a manual action.
C28_Witness ==
    /\ StepReturned
    /\ TheStep.Action # NIL
    /\ TheStep.Action.Manual
    /\ ~TheStep.Action.Executable
    /\ TheStep.Action.Result = "NotTested"
    /\ TheStep.Action.Output = ""
    /\ TheStep.Expected = "XFail"
    /\ TheStep.Status = "Pass"
    /\ calls = <<>>

\* The actions of the tree.
AllActions ==
    {tset.Setup, tset.Cleanup}
    \cup {tset.Cases[c].Setup : c \in DOMAIN tset.Cases}
    \cup {tset.Cases[c].Cleanup : c \in DOMAIN tset.Cases}
    \cup UNION {{tset.Cases[c].Steps[s].Action : s \in DOMAIN tset.Cases[c].Steps} :
                  c \in DOMAIN tset.Cases}

\* The flags of the action are those Action.Init derives from its fields; the
\* Empty action Initialize puts in for a missing one counts as classified.
Classified(a) ==
    \/ a = CreateEmptyAction
    \/ /\ a.Executable = (a.Script # "")
       /\ a.Manual = (a.Script = "" /\ a.Description # "")

\* C27: when TestSet.Initialize has returned on a loaded set, every action of
\* the tree is classified from its fields and has Result NotTested; a set
\* setup with a script is then run by TestSet.Execute.
C27_EveryActionClassified ==
    (Loading /\ inits > 0 /\ pc # "panic") =>
        /\ pc = "ts_setup" =>
               \A a \in AllActions : a # NIL /\ Classified(a) /\ a.Result = "NotTested"
        /\ (pc = "done" /\ tset.Setup.Script # "") => Occurs(Run("ts.Setup", 0, 0))

====
